---------------------------- MODULE Spec2Model ----------------------------
(***************************************************************************)
(* Model of src/datasets/find_duplicate_sketch_artboard.py: the export     *)
(* worker pool (process, GenerateArtboardsThread.run), the image cache     *)
(* (get_image under lru_cache), the comparator (compare_image) and the     *)
(* grouping engine (merge_artboard_group and the manifest of __main__).    *)
(***************************************************************************)
EXTENDS Integers, Sequences, FiniteSets, TLC

VARIABLES
    \* ---- process / GenerateArtboardsThread ----
    sketch_list,        \* argument of process: the document paths
    ppc,                \* position of the caller inside process
    started,            \* number of worker threads started so far
    sketch_queue,       \* Queue(): the jobs not yet taken (indices of sketch_list)
    unfinished_tasks,   \* Queue.unfinished_tasks of sketch_queue
    error_queue,        \* Queue(): the stderr texts pushed by the workers
    pbar_n,             \* tqdm counter
    wpc,                \* position of each worker inside run
    wjob,               \* run's local sketch_path (as an index of sketch_list)
    wres,               \* run's local res.stderr
    error_message_set,  \* process's local set of lines
    error_file,         \* the lines written to error_file
    takes,              \* history: how often each job left the work queue
    exports,            \* history: how often each job was handed to the exporter
    results,            \* history: what the exporter did with each job
    \* ---- compare_image ----
    image1, image2,     \* the arguments of a compare_image call
    cpc,                \* "call" before the call, "returned" after it
    similar,            \* the value compare_image returned
    \* ---- get_image under lru_cache(maxsize=128) ----
    disk,               \* the image file behind every path
    cache,              \* the cache entries, least recently used first
    calls,              \* history: the paths get_image was called with
    decodes,            \* history: how often Image.open decoded a file
    buffers,            \* history: the buffer of each path's latest decode
    returned,           \* the value of the latest get_image call
    last_decoded,       \* whether the latest get_image call decoded
    ncalls,             \* get_image calls made from outside the grouping run
    \* ---- merge_artboard_group and the manifest of __main__ ----
    gpc,                \* position inside merge_artboard_group / __main__
    run,                \* 1 in the first grouping run, 2 in the repeated one
    listing,            \* the artboard paths in the order the two globs give them
    artboards,          \* line 107: (artboard_path, width, height) tuples
    size_groups,        \* line 112: the dict, as its items in insertion order
    image_groups,       \* line 115
    sub_image_groups,   \* line 117
    bi,                 \* position of the loop of line 116 in size_groups
    ai,                 \* position of the loop of line 118 in artboard_path_list
    gi,                 \* position of the loop of line 121 in sub_image_groups
    image,              \* line 119
    compared,           \* history: the pairs of paths compare_image was called on
    manifest,           \* the groups written to sim_groups.json
    first_groups,       \* history: what the first run returned
    first_manifest,     \* history: what the first run wrote
    composites,         \* the images saved under sim_folder, by group_idx
    \* ---- get_missing_font ----
    error_log,          \* the lines of the file get_missing_font reads
    fpc,                \* "call" before the call, "returned" after it
    missing_fonts,      \* the list get_missing_font returned
    \* ---- generate_artboards_png ----
    pages,              \* the artboard ids of each document
    dirs,               \* the directories under the output root
    files,              \* the files under the output root and what they hold
    target,             \* history: the directory of the latest export
    last_export,        \* history: the document and outcome of the latest export
    prev_export,        \* history: those of the export before it
    before_dirs,        \* history: dirs before the latest export
    before_files,       \* history: files before the latest export
    nexports            \* the exports made so far

poolvars == <<sketch_list, ppc, started, sketch_queue, unfinished_tasks,
              error_queue, pbar_n, wpc, wjob, wres, error_message_set,
              error_file, takes, exports, results>>

comparevars == <<image1, image2, cpc, similar>>

cachevars == <<disk, cache, calls, decodes, buffers, returned, last_decoded, ncalls>>

groupvars == <<gpc, run, listing, artboards, size_groups, image_groups,
               sub_image_groups, bi, ai, gi, image, compared, manifest,
               first_groups, first_manifest, composites>>

fontvars == <<error_log, fpc, missing_fonts>>

exportvars == <<pages, dirs, files, target, last_export, prev_export, before_dirs,
                before_files, nexports>>

vars == <<poolvars, comparevars, cachevars, groupvars, fontvars, exportvars>>

\* What the actions of one part leave alone.
outsidePool == <<comparevars, cachevars, groupvars, fontvars, exportvars>>
outsideCompare == <<poolvars, cachevars, groupvars, fontvars, exportvars>>
outsideCache == <<poolvars, comparevars, groupvars, fontvars, exportvars>>
outsideGroup == <<poolvars, comparevars, fontvars, exportvars>>
outsideMerge == <<outsideGroup, composites>>
outsideFont == <<poolvars, comparevars, cachevars, groupvars, exportvars>>
outsideExport == <<poolvars, comparevars, cachevars, groupvars, fontvars>>

-----------------------------------------------------------------------------
(* Bounds of the model. *)

\* Longest sketch_list.
MaxJobs == 3
\* Worker threads started by process.  The code starts range(8); the model
\* keeps the pool smaller than the longest job list can occupy.
NumWorkers == 2
\* Largest height, width and channel count of the images given to compare_image.
MaxHeight == 1
MaxWidth == 2
MaxChannels == 2
\* Most get_image calls in a run of the cache on its own.
MaxCalls == 5
\* Most artboard files under the output folder.
MaxArtboards == 3
\* Most lines of the error log given to get_missing_font.
MaxLines == 3
\* Most exports made one after the other into one output root.
MaxExports == 3

-----------------------------------------------------------------------------
(* Strings are sequences of one-character strings. *)

NL == "\n"
SP == " "

IsSpace(ch) == ch \in {SP, NL}

RECURSIVE LStrip(_)
LStrip(s) ==
    IF s # <<>> /\ IsSpace(Head(s)) THEN LStrip(Tail(s)) ELSE s

RECURSIVE RStrip(_)
RStrip(s) ==
    IF s # <<>> /\ IsSpace(s[Len(s)]) THEN RStrip(SubSeq(s, 1, Len(s) - 1)) ELSE s

\* str.strip()
Strip(s) == RStrip(LStrip(s))

\* str.split("\n"): the pieces between the separators; "" gives [""].
RECURSIVE SplitFrom(_, _)
SplitFrom(s, cur) ==
    IF s = <<>> THEN <<cur>>
    ELSE IF Head(s) = NL THEN <<cur>> \o SplitFrom(Tail(s), <<>>)
    ELSE SplitFrom(Tail(s), Append(cur, Head(s)))

Split(s) == SplitFrom(s, <<>>)

Range(s) == {s[i] : i \in DOMAIN s}

\* Lines 74-75: the lines one stderr text adds to error_message_set.
StderrLines(stderr) == {line \o <<NL>> : line \in Range(Split(Strip(stderr)))}

\* list(error_message_set): the members of a set in some order.
Orderings(S) ==
    {f \in [1..Cardinality(S) -> S] : \A i, j \in 1..Cardinality(S) : f[i] = f[j] => i = j}

-----------------------------------------------------------------------------
(* The exporter, as run sees it. *)

\* Diagnostic texts res.stderr can carry; <<>> is the empty (falsy) text.
Stderrs ==
    { <<>>,
      <<"a">>,
      <<SP, "a", NL, "b", NL>>,
      <<"b", NL, "a">> }

\* generate_artboards_png_sync either returns a result or raises (makedirs on
\* a path that exists as a file, a listing without value, ...).
ExportOutcomes ==
    {[raised |-> FALSE, stderr |-> s] : s \in Stderrs} \cup {[raised |-> TRUE, stderr |-> <<>>]}

NoResult == [raised |-> FALSE, stderr |-> <<"?">>]

Workers == 1..NumWorkers
Jobs == 1..Len(sketch_list)

\* The document paths of a batch: n distinct documents.  A path is
\* <<folder, stem>>; the stems repeat from folder to folder.
Document(i) == <<(i + 1) \div 2, i % 2>>
SketchLists == {[i \in 1..n |-> Document(i)] : n \in 0..MaxJobs}

-----------------------------------------------------------------------------
(* process, lines 60-77. *)

InitPool ==
    /\ sketch_list \in SketchLists
    /\ ppc = "enqueue"
    /\ started = 0
    /\ sketch_queue = <<>>
    /\ unfinished_tasks = 0
    /\ error_queue = <<>>
    /\ pbar_n = 0
    /\ wpc = [w \in Workers |-> "check"]
    /\ wjob = [w \in Workers |-> 0]
    /\ wres = [w \in Workers |-> <<>>]
    /\ error_message_set = {}
    /\ error_file = <<>>
    /\ takes = [j \in Jobs |-> 0]
    /\ exports = [j \in Jobs |-> 0]
    /\ results = [j \in Jobs |-> NoResult]

\* Lines 61-65: every path is put on the work queue (Queue.put counts it as
\* an unfinished task).
ProcessEnqueue ==
    /\ ppc = "enqueue"
    /\ sketch_queue' = [i \in 1..Len(sketch_list) |-> i]
    /\ unfinished_tasks' = Len(sketch_list)
    /\ ppc' = "start"
    /\ UNCHANGED <<outsidePool, sketch_list, started, error_queue, pbar_n, wpc, wjob, wres,
                   error_message_set, error_file, takes, exports, results>>

\* Lines 66-69: one more daemon thread is started.
ProcessStartThread ==
    /\ ppc = "start"
    /\ started' = started + 1
    /\ ppc' = IF started + 1 = NumWorkers THEN "join" ELSE "start"
    /\ UNCHANGED <<outsidePool, sketch_list, sketch_queue, unfinished_tasks, error_queue, pbar_n,
                   wpc, wjob, wres, error_message_set, error_file, takes, exports,
                   results>>

\* Queue.join() returns when every put has been answered by a task_done.
JoinNoWait(tasks, queue) == queue = <<>>
JoinReturns(tasks, queue) == tasks = 0

\* Line 70.
ProcessJoin ==
    /\ ppc = "join"
    /\ JoinReturns(unfinished_tasks, sketch_queue)
    /\ ppc' = "drain"
    /\ UNCHANGED <<outsidePool, sketch_list, started, sketch_queue, unfinished_tasks, error_queue,
                   pbar_n, wpc, wjob, wres, error_message_set, error_file, takes,
                   exports, results>>

\* Lines 72-75: one turn of the drain loop, or its exit.
ProcessDrain ==
    /\ ppc = "drain"
    /\ IF error_queue = <<>>
         THEN /\ ppc' = "write"
              /\ UNCHANGED <<error_queue, error_message_set>>
         ELSE /\ error_queue' = Tail(error_queue)
              /\ error_message_set' = error_message_set \cup StderrLines(Head(error_queue))
              /\ ppc' = "drain"
    /\ UNCHANGED <<outsidePool, sketch_list, started, sketch_queue, unfinished_tasks, pbar_n, wpc,
                   wjob, wres, error_file, takes, exports, results>>

\* Lines 76-77: the set is written in the order list() gives it.
ProcessWrite ==
    /\ ppc = "write"
    /\ \E order \in Orderings(error_message_set) : error_file' = order
    /\ ppc' = "done"
    /\ UNCHANGED <<outsidePool, sketch_list, started, sketch_queue, unfinished_tasks, error_queue,
                   pbar_n, wpc, wjob, wres, error_message_set, takes, exports, results>>

-----------------------------------------------------------------------------
(* GenerateArtboardsThread.run, lines 48-57.  Worker w runs once started. *)

\* Lines 50-51.
RunCheckEmpty(w) ==
    /\ w <= started
    /\ wpc[w] = "check"
    /\ wpc' = [wpc EXCEPT ![w] = IF sketch_queue = <<>> THEN "exited" ELSE "get"]
    /\ UNCHANGED <<outsidePool, sketch_list, ppc, started, sketch_queue, unfinished_tasks,
                   error_queue, pbar_n, wjob, wres, error_message_set, error_file,
                   takes, exports, results>>

\* Line 52: Queue.get() blocks while the queue is empty.
RunGet(w) ==
    /\ wpc[w] = "get"
    /\ sketch_queue # <<>>
    /\ wjob' = [wjob EXCEPT ![w] = Head(sketch_queue)]
    /\ sketch_queue' = Tail(sketch_queue)
    /\ takes' = [takes EXCEPT ![Head(sketch_queue)] = @ + 1]
    /\ wpc' = [wpc EXCEPT ![w] = "export"]
    /\ UNCHANGED <<outsidePool, sketch_list, ppc, started, unfinished_tasks, error_queue, pbar_n,
                   wres, error_message_set, error_file, exports, results>>

\* Line 53: the export returns a result, or raises and ends the thread.
RunExport(w) ==
    /\ wpc[w] = "export"
    /\ \E out \in ExportOutcomes :
         /\ exports' = [exports EXCEPT ![wjob[w]] = @ + 1]
         /\ results' = [results EXCEPT ![wjob[w]] = out]
         /\ wres' = [wres EXCEPT ![w] = out.stderr]
         /\ wpc' = [wpc EXCEPT ![w] = IF out.raised THEN "crashed" ELSE "report"]
    /\ UNCHANGED <<outsidePool, sketch_list, ppc, started, sketch_queue, unfinished_tasks,
                   error_queue, pbar_n, wjob, error_message_set, error_file, takes>>

\* Lines 54-56.
RunReport(w) ==
    /\ wpc[w] = "report"
    /\ error_queue' = IF wres[w] # <<>> THEN Append(error_queue, wres[w]) ELSE error_queue
    /\ pbar_n' = pbar_n + 1
    /\ wpc' = [wpc EXCEPT ![w] = "task_done"]
    /\ UNCHANGED <<outsidePool, sketch_list, ppc, started, sketch_queue, unfinished_tasks, wjob,
                   wres, error_message_set, error_file, takes, exports, results>>

\* Line 57.
RunTaskDone(w) ==
    /\ wpc[w] = "task_done"
    /\ unfinished_tasks' = unfinished_tasks - 1
    /\ wpc' = [wpc EXCEPT ![w] = "check"]
    /\ UNCHANGED <<outsidePool, sketch_list, ppc, started, sketch_queue, error_queue, pbar_n, wjob,
                   wres, error_message_set, error_file, takes, exports, results>>

Run(w) ==
    \/ RunCheckEmpty(w)
    \/ RunGet(w)
    \/ RunExport(w)
    \/ RunReport(w)
    \/ RunTaskDone(w)

NextPool ==
    \/ ProcessEnqueue
    \/ ProcessStartThread
    \/ ProcessJoin
    \/ ProcessDrain
    \/ ProcessWrite
    \/ \E w \in Workers : Run(w)

-----------------------------------------------------------------------------
(* Images: numpy arrays of shape (height, width, channels). *)

Cells(h, w, c) == (1..h) \X (1..w) \X (1..c)

\* An h x w x c array whose cells alternate between the values a and b.
Pattern(h, w, c, a, b) ==
    [shape |-> <<h, w, c>>,
     px |-> [t \in Cells(h, w, c) |-> IF (t[1] + t[2] + t[3]) % 2 = 1 THEN a ELSE b]]

Min(m, n) == IF m <= n THEN m ELSE n

RECURSIVE SumOver(_, _)
SumOver(S, f) ==
    IF S = {} THEN 0
    ELSE LET t == CHOOSE u \in S : TRUE IN f[t] + SumOver(S \ {t}, f)

-----------------------------------------------------------------------------
(* compare_image, lines 96-102. *)

\* The threshold of line 102.
Threshold == 500

\* array[:x, :y, :c]
Slice(array, x, y, c) ==
    [shape |-> <<x, y, c>>, px |-> [t \in Cells(x, y, c) |-> array.px[t]]]

\* sewar's mse on two arrays of one shape: the mean of the squared
\* differences, kept as the exact fraction sum / count.
mse(GT, P) ==
    [sum |-> SumOver(DOMAIN GT.px,
                     [t \in DOMAIN GT.px |-> (GT.px[t] - P.px[t]) * (GT.px[t] - P.px[t])]),
     count |-> Cardinality(DOMAIN GT.px)]

\* res < 500
AtOrBelowThreshold(res) == res.sum <= Threshold * res.count
BelowThreshold(res) == res.sum < Threshold * res.count

compare_image(a, b) ==
    LET x == Min(a.shape[1], b.shape[1])
        y == Min(a.shape[2], b.shape[2])
        c == Min(a.shape[3], b.shape[3])
    IN  BelowThreshold(mse(Slice(a, x, y, c), Slice(b, x, y, c)))

\* Pixel values that give the errors 0, 10, 500 and 900 among others.
PixelValues == {0, 2, 4, 10, 30}

CompareImages ==
    {Pattern(h, w, c, a, b) :
        h \in 1..MaxHeight, w \in 1..MaxWidth, c \in 1..MaxChannels,
        a \in PixelValues, b \in PixelValues}

InitCompare ==
    /\ image1 \in CompareImages
    /\ image2 \in CompareImages
    /\ cpc = "call"
    /\ similar = FALSE

IdleCompare ==
    /\ image1 = Pattern(1, 1, 1, 0, 0)
    /\ image2 = Pattern(1, 1, 1, 0, 0)
    /\ cpc = "idle"
    /\ similar = FALSE

CompareImage ==
    /\ cpc = "call"
    /\ similar' = compare_image(image1, image2)
    /\ cpc' = "returned"
    /\ UNCHANGED <<image1, image2, outsideCompare>>

-----------------------------------------------------------------------------
(* get_image, lines 91-93: Image.open behind functools.lru_cache. *)

\* maxsize of line 91.
maxsize == 128

\* A path is <<folder, file name>>.  The exported artboards lie two to a
\* document folder, and the file names repeat from folder to folder; folder 0
\* holds other image files.
Artboard(i) == <<(i + 1) \div 2, i % 2>>
Filler(i) == <<0, i>>

ArtboardPaths == {Artboard(i) : i \in 1..MaxArtboards}

\* The key lru_cache files a call under: the argument itself.
KeyIgnoringFolder(image_path) == image_path[2]
Key(image_path) == image_path

\* The position of a key in the cache, 0 when it is absent.
CacheIndex(c, key) ==
    IF \E i \in DOMAIN c : c[i].key = key
      THEN CHOOSE i \in DOMAIN c : c[i].key = key
      ELSE 0

\* A hit makes its entry the most recently used one.
Untouched(c, i) == c
Touch(c, i) == SubSeq(c, 1, i - 1) \o SubSeq(c, i + 1, Len(c)) \o <<c[i]>>

\* A miss on a full cache drops the least recently used entry.
MakeRoom(c) == IF Len(c) >= maxsize THEN Tail(c) ELSE c

Blank == Pattern(1, 1, 1, 0, 0)
Grey == Pattern(1, 1, 1, 20, 20)

\* A file Image.open cannot decode: corrupt, or not there.
Unreadable == Pattern(0, 0, 0, 0, 0)

\* Line 93: Image.open raises on such a file; nothing catches it.
DecodeNeverRaises(file) == FALSE
DecodeRaises(file) == file = Unreadable

\* One get_image call on cache c and file system d: the value returned, the
\* cache afterwards, whether the file was decoded and whether the call
\* raised instead of returning (lru_cache stores nothing then).
get_image(c, d, image_path) ==
    LET i == CacheIndex(c, Key(image_path))
    IN  IF i # 0
          THEN [value |-> c[i].value, cache |-> Touch(c, i), decoded |-> FALSE,
                raised |-> FALSE]
          ELSE IF DecodeRaises(d[image_path])
          THEN [value |-> Blank, cache |-> c, decoded |-> FALSE, raised |-> TRUE]
          ELSE [value |-> d[image_path],
                cache |-> Append(MakeRoom(c), [key |-> Key(image_path), value |-> d[image_path]]),
                decoded |-> TRUE, raised |-> FALSE]

\* The cache after get_image has been called on k files never seen before.
Prefill(k) == [i \in 1..k |-> [key |-> Key(Filler(i)), value |-> Blank]]

\* The paths the cache is asked for when it runs on its own: the two oldest
\* of the earlier files and two artboards.
CallPaths == {Filler(1), Filler(2), Artboard(1), Artboard(2)}

\* The cache is empty, or one short of full after maxsize - 1 earlier calls.
InitCache ==
    /\ \E k \in {0, maxsize - 1} :
          /\ cache = Prefill(k)
          /\ calls = [i \in 1..k |-> Filler(i)]
          /\ decodes = k
    /\ disk = [p \in CallPaths |-> Blank]
    /\ buffers = [p \in DOMAIN disk |-> Blank]
    /\ returned = Blank
    /\ last_decoded = FALSE
    /\ ncalls = 0

IdleCache ==
    /\ cache = <<>>
    /\ calls = <<>>
    /\ decodes = 0
    /\ disk = [p \in {} |-> Blank]
    /\ buffers = [p \in {} |-> Blank]
    /\ returned = Blank
    /\ last_decoded = FALSE
    /\ ncalls = 0

\* One call of get_image that returns.
CallGetImage(image_path) ==
    /\ ~get_image(cache, disk, image_path).raised
    /\ LET r == get_image(cache, disk, image_path)
       IN  /\ cache' = r.cache
           /\ returned' = r.value
           /\ last_decoded' = r.decoded
           /\ decodes' = IF r.decoded THEN decodes + 1 ELSE decodes
           /\ buffers' = IF r.decoded THEN [buffers EXCEPT ![image_path] = r.value] ELSE buffers
    /\ calls' = Append(calls, image_path)
    /\ UNCHANGED disk

\* get_image is called once more from outside the grouping run.
CacheCall ==
    /\ ncalls < MaxCalls
    /\ \E image_path \in CallPaths : CallGetImage(image_path)
    /\ ncalls' = ncalls + 1
    /\ UNCHANGED outsideCache

\* An export with overwriting=True (line 32) replaces an artboard file.
Overwrite ==
    /\ \E image_path \in {Artboard(1)} :
          disk' = [disk EXCEPT ![image_path] = IF @ = Blank THEN Grey ELSE Blank]
    /\ UNCHANGED <<cache, calls, decodes, buffers, returned, last_decoded, ncalls,
                   outsideCache>>

-----------------------------------------------------------------------------
(* merge_artboard_group, lines 105-129, and the manifest of __main__,     *)
(* lines 143-151.                                                          *)

\* The exported images: two sizes, three shades.  Shades 0 and 20, and 20
\* and 40, are similar under compare_image; 0 and 40 are not.
GroupImages == {Pattern(1, w, 1, v, v) : w \in 1..2, v \in {0, 20, 40}}

\* What the files under the output folder can hold.
GroupFiles == GroupImages \cup {Unreadable}

\* Line 114: the key of the bucket of an image.
BucketKeyFirstOnly(width, height) == <<width>>
BucketKey(width, height) == <<width, height>>

\* size_groups.setdefault(key, []).append(artboard_path)
SetDefaultAppend(sg, key, artboard_path) ==
    IF \E i \in DOMAIN sg : sg[i].key = key
      THEN LET i == CHOOSE k \in DOMAIN sg : sg[k].key = key
           IN  [sg EXCEPT ![i].paths = Append(@, artboard_path)]
      ELSE Append(sg, [key |-> key, paths |-> <<artboard_path>>])

\* Lines 112-114: the buckets of the first n artboards.
RECURSIVE Buckets(_, _)
Buckets(abs, n) ==
    IF n = 0 THEN <<>>
    ELSE SetDefaultAppend(Buckets(abs, n - 1), BucketKey(abs[n][2], abs[n][3]), abs[n][1])

\* Line 121, for group in sub_image_groups: the group looked at in turn k of
\* the loop over n open groups.
ReverseTurn(n, k) == n - k + 1
Turn(n, k) == k

\* Line 122: the member of a group the artboard is compared with, group[0].
LastMember(group) == group[Len(group)]
Representative(group) == group[1]

\* Line 123: group.append(artboard)
JoinGroupInFront(group, artboard) == <<artboard>> \o group
JoinGroup(group, artboard) == Append(group, artboard)

\* Lines 126-127: whether the artboard opens a group of its own.
NeverOpensGroup(match) == FALSE
AlwaysOpensGroup(match) == TRUE
OpensGroup(match) == ~match

\* Line 146: the groups the manifest keeps.
KeepsNonEmptyGroup(x) == Len(x) > 0
KeepsGroup(x) == Len(x) > 1

RECURSIVE Filter(_)
Filter(groups) ==
    IF groups = <<>> THEN <<>>
    ELSE IF KeepsGroup(Head(groups)) THEN <<Head(groups)>> \o Filter(Tail(groups))
    ELSE Filter(Tail(groups))

\* The cache at the start of a run: empty, or holding one of the files from
\* an earlier call.
WarmCaches(d) ==
    {<<>>} \cup {<<[key |-> Key(p), value |-> d[p]]>> : p \in {q \in DOMAIN d : ~DecodeRaises(d[q])}}

InitGroup ==
    /\ \E n \in 0..MaxArtboards : listing = [i \in 1..n |-> Artboard(i)]
    /\ disk \in [Range(listing) -> GroupFiles]
    /\ cache \in WarmCaches(disk)
    /\ calls = <<>>
    /\ decodes = 0
    /\ buffers = disk
    /\ returned = Blank
    /\ last_decoded = FALSE
    /\ ncalls = 0
    /\ gpc = "measure"
    /\ run = 1
    /\ artboards = <<>>
    /\ size_groups = <<>>
    /\ image_groups = <<>>
    /\ sub_image_groups = <<>>
    /\ bi = 1
    /\ ai = 1
    /\ gi = 1
    /\ image = Blank
    /\ compared = {}
    /\ manifest = <<>>
    /\ first_groups = <<>>
    /\ first_manifest = <<>>
    /\ composites = <<>>

IdleGroup ==
    /\ gpc = "idle"
    /\ run = 1
    /\ listing = <<>>
    /\ artboards = <<>>
    /\ size_groups = <<>>
    /\ image_groups = <<>>
    /\ sub_image_groups = <<>>
    /\ bi = 1
    /\ ai = 1
    /\ gi = 1
    /\ image = Blank
    /\ compared = {}
    /\ manifest = <<>>
    /\ first_groups = <<>>
    /\ first_manifest = <<>>
    /\ composites = <<>>

\* Lines 107-111: the next artboard of the listing is decoded for its shape.
GroupMeasure ==
    /\ gpc = "measure"
    /\ Len(artboards) < Len(listing)
    /\ LET artboard_path == listing[Len(artboards) + 1]
       IN  /\ CallGetImage(artboard_path)
           /\ artboards' = Append(artboards,
                                  <<artboard_path, returned'.shape[1], returned'.shape[2]>>)
    /\ UNCHANGED <<gpc, run, listing, size_groups, image_groups, sub_image_groups, bi,
                   ai, gi, image, compared, manifest, first_groups, first_manifest,
                   ncalls, outsideMerge>>

\* Lines 112-115: the artboards are put into their buckets.
GroupBucket ==
    /\ gpc = "measure"
    /\ Len(artboards) = Len(listing)
    /\ size_groups' = Buckets(artboards, Len(artboards))
    /\ image_groups' = <<>>
    /\ sub_image_groups' = <<>>
    /\ bi' = 1
    /\ ai' = 1
    /\ gpc' = "load"
    /\ UNCHANGED <<run, listing, artboards, gi, image, compared, manifest, first_groups,
                   first_manifest, cachevars, outsideMerge>>

\* Line 129: every bucket is done.
GroupReturn ==
    /\ gpc = "load"
    /\ bi > Len(size_groups)
    /\ gpc' = "dump"
    /\ UNCHANGED <<run, listing, artboards, size_groups, image_groups, sub_image_groups,
                   bi, ai, gi, image, compared, manifest, first_groups, first_manifest,
                   cachevars, outsideMerge>>

\* Lines 128 and 117: a bucket is done, its groups join image_groups.
GroupNextBucket ==
    /\ gpc = "load"
    /\ bi <= Len(size_groups)
    /\ ai > Len(size_groups[bi].paths)
    /\ image_groups' = image_groups \o sub_image_groups
    /\ sub_image_groups' = <<>>
    /\ bi' = bi + 1
    /\ ai' = 1
    /\ UNCHANGED <<gpc, run, listing, artboards, size_groups, gi, image, compared,
                   manifest, first_groups, first_manifest, cachevars, outsideMerge>>

\* Lines 118-120: the next artboard of the bucket is loaded.
GroupLoad ==
    /\ gpc = "load"
    /\ bi <= Len(size_groups)
    /\ ai <= Len(size_groups[bi].paths)
    /\ CallGetImage(size_groups[bi].paths[ai])
    /\ image' = returned'
    /\ gi' = 1
    /\ gpc' = "scan"
    /\ UNCHANGED <<run, listing, artboards, size_groups, image_groups, sub_image_groups,
                   bi, ai, compared, manifest, first_groups, first_manifest, ncalls,
                   outsideMerge>>

\* Lines 121-127, one turn of the loop over the open groups: the artboard is
\* compared with the first member of group gi and joins it on a match.
GroupCompare ==
    /\ gpc = "scan"
    /\ gi <= Len(sub_image_groups)
    /\ LET artboard == size_groups[bi].paths[ai]
           g == Turn(Len(sub_image_groups), gi)
           first == Representative(sub_image_groups[g])
       IN  /\ CallGetImage(first)
           /\ compared' = compared \cup {<<artboard, first>>}
           /\ IF compare_image(image, returned')
                THEN /\ sub_image_groups' =
                          LET joined == [sub_image_groups EXCEPT
                                           ![g] = JoinGroup(@, artboard)]
                          IN  IF OpensGroup(TRUE) THEN Append(joined, <<artboard>>) ELSE joined
                     /\ ai' = ai + 1
                     /\ gpc' = "load"
                     /\ UNCHANGED gi
                ELSE /\ gi' = gi + 1
                     /\ UNCHANGED <<sub_image_groups, ai, gpc>>
    /\ UNCHANGED <<run, listing, artboards, size_groups, image_groups, bi, image,
                   manifest, first_groups, first_manifest, ncalls, outsideMerge>>

\* Lines 126-127 after a loop that found no match.
GroupOpen ==
    /\ gpc = "scan"
    /\ gi > Len(sub_image_groups)
    /\ sub_image_groups' =
          IF OpensGroup(FALSE)
            THEN Append(sub_image_groups, <<size_groups[bi].paths[ai]>>)
            ELSE sub_image_groups
    /\ ai' = ai + 1
    /\ gpc' = "load"
    /\ UNCHANGED <<run, listing, artboards, size_groups, image_groups, bi, gi, image,
                   compared, manifest, first_groups, first_manifest, cachevars,
                   outsideMerge>>

\* Lines 143-151: the groups with more than one member are written.
MainDump ==
    /\ gpc = "dump"
    /\ manifest' = Filter(image_groups)
    /\ first_groups' = IF run = 1 THEN image_groups ELSE first_groups
    /\ first_manifest' = IF run = 1 THEN manifest' ELSE first_manifest
    /\ gpc' = "done"
    /\ UNCHANGED <<run, listing, artboards, size_groups, image_groups, sub_image_groups,
                   bi, ai, gi, image, compared, cachevars, outsideMerge>>

\* Image.size of the file behind a path: (width, height), where the array of
\* get_image has the shape (height, width, channels).
ImageSize(d, x) == <<d[x].shape[2], d[x].shape[1]>>

\* Line 159: the x offset member i of a group is pasted at, i counted from 0.
PasteAtOrigin(i, image_width) == 0
PasteOffset(i, image_width) == i * image_width

\* Lines 154-160: the composite image of one group: its size and, for each
\* member, the box the member is pasted into.
Composite(d, group) ==
    LET group_images == [i \in DOMAIN group |-> ImageSize(d, group[i])]
    IN  [size |-> <<group_images[1][1] * Len(group_images), group_images[1][2]>>,
         pastes |-> [i \in DOMAIN group |->
                        [x |-> PasteOffset(i - 1, group_images[i][1]),
                         y |-> 0,
                         width |-> group_images[i][1],
                         height |-> group_images[i][2]]]]

\* Lines 152-161: the manifest is read back and one composite image is saved
\* for each of its groups.
MainMaterialize ==
    /\ gpc = "done"
    /\ composites' = [group_idx \in DOMAIN manifest |-> Composite(disk, manifest[group_idx])]
    /\ gpc' = "saved"
    /\ UNCHANGED <<run, listing, artboards, size_groups, image_groups, sub_image_groups,
                   bi, ai, gi, image, compared, manifest, first_groups, first_manifest,
                   cachevars, outsideGroup>>

\* The program is run again on the same output folder: in the same process
\* with the cache as the first run left it, or in a new one with none.
MainAgain ==
    /\ gpc = "saved"
    /\ run = 1
    /\ run' = 2
    /\ cache' \in {cache, <<>>}
    /\ gpc' = "measure"
    /\ artboards' = <<>>
    /\ size_groups' = <<>>
    /\ image_groups' = <<>>
    /\ sub_image_groups' = <<>>
    /\ bi' = 1
    /\ ai' = 1
    /\ gi' = 1
    /\ manifest' = <<>>
    /\ composites' = <<>>
    /\ UNCHANGED <<listing, image, compared, first_groups, first_manifest, disk, calls,
                   decodes, buffers, returned, last_decoded, ncalls, outsideGroup>>

\* The path the next get_image call of the run is made with: line 109, line
\* 119 or line 122.
NextImagePath ==
    IF gpc = "measure" THEN listing[Len(artboards) + 1]
    ELSE IF gpc = "load" THEN size_groups[bi].paths[ai]
    ELSE Representative(sub_image_groups[Turn(Len(sub_image_groups), gi)])

\* get_image raises: the exception leaves merge_artboard_group and, with no
\* handler in __main__ either, ends the program before line 143 opens the
\* manifest file.
GroupRaise ==
    /\ \/ gpc = "measure" /\ Len(artboards) < Len(listing)
       \/ gpc = "load" /\ bi <= Len(size_groups) /\ ai <= Len(size_groups[bi].paths)
       \/ gpc = "scan" /\ gi <= Len(sub_image_groups)
    /\ get_image(cache, disk, NextImagePath).raised
    /\ gpc' = "aborted"
    /\ UNCHANGED <<run, listing, artboards, size_groups, image_groups, sub_image_groups,
                   bi, ai, gi, image, compared, manifest, first_groups, first_manifest,
                   cachevars, outsideMerge>>

NextGroup ==
    \/ GroupMeasure
    \/ GroupRaise
    \/ GroupBucket
    \/ GroupReturn
    \/ GroupNextBucket
    \/ GroupLoad
    \/ GroupCompare
    \/ GroupOpen
    \/ MainDump
    \/ MainMaterialize
    \/ MainAgain

-----------------------------------------------------------------------------
(* get_missing_font, lines 80-88 (and src/utils/sketch_utils.py, 37-45). *)

\* The text 'Client requested name ' of the pattern, as one character.
KW == "Client requested name "
QUOTE == "\""

\* The characters of the log in code point order.
CodePoints == <<NL, SP, QUOTE, "A", "B", "H", "N", "a", "x">>

Ord(ch) == CHOOSE i \in DOMAIN CodePoints : CodePoints[i] = ch

\* str < str
RECURSIVE StrLess(_, _)
StrLess(s, t) ==
    IF t = <<>> THEN FALSE
    ELSE IF s = <<>> THEN TRUE
    ELSE IF Head(s) = Head(t) THEN StrLess(Tail(s), Tail(t))
    ELSE Ord(Head(s)) < Ord(Head(t))

\* sorted(S) of a set of strings
Sorted(S) ==
    CHOOSE f \in Orderings(S) : \A i, j \in DOMAIN f : i < j => StrLess(f[i], f[j])

\* '.' matches every character but the newline.
Dot(ch) == ch # NL

\* The position of the first '"' of the line at or after position s, 0 if none.
NextQuote(line, s) ==
    IF \E q \in s..Len(line) : line[q] = QUOTE
      THEN CHOOSE q \in s..Len(line) :
               line[q] = QUOTE /\ \A k \in s..(q - 1) : line[k] # QUOTE
      ELSE 0

\* Whether  Client requested name "(((?!").)+)"  matches at position i.
PatternAt(line, i) ==
    /\ i + 1 <= Len(line)
    /\ line[i] = KW
    /\ line[i + 1] = QUOTE
    /\ NextQuote(line, i + 2) > i + 2
    /\ \A k \in (i + 2)..(NextQuote(line, i + 2) - 1) : Dot(line[k])

\* The positions where re.match can end the leading '.+': at least one
\* character, none of them a newline, and the rest of the pattern follows.
MatchStarts(line) ==
    {i \in 2..Len(line) : PatternAt(line, i) /\ \A k \in 1..(i - 1) : Dot(line[k])}

\* match.group(1) of line 85: '.+' is greedy, so the last start wins.
Group1(line) ==
    LET i == CHOOSE k \in MatchStarts(line) : \A m \in MatchStarts(line) : m <= k
    IN  SubSeq(line, i + 2, NextQuote(line, i + 2) - 1)

get_missing_font(lines) ==
    Sorted({Group1(lines[n]) : n \in {k \in DOMAIN lines : MatchStarts(lines[k]) # {}}})

\* Lines an error log can hold.
LogLines ==
    { <<"x", KW, QUOTE, "H", SP, "N", QUOTE, "x", NL>>,
      <<"x", KW, QUOTE, "A", QUOTE, NL>>,
      <<KW, QUOTE, "A", QUOTE, NL>>,
      <<"x", KW, QUOTE, "a", QUOTE, KW, QUOTE, "B", QUOTE, NL>>,
      <<"x", KW, QUOTE, QUOTE, NL>>,
      <<"x", KW, QUOTE, "A", NL>>,
      <<"x", NL>> }

InitFont ==
    /\ \E n \in 0..MaxLines : error_log \in [1..n -> LogLines]
    /\ fpc = "call"
    /\ missing_fonts = <<>>

IdleFont ==
    /\ error_log = <<>>
    /\ fpc = "idle"
    /\ missing_fonts = <<>>

GetMissingFont ==
    /\ fpc = "call"
    /\ missing_fonts' = get_missing_font(error_log)
    /\ fpc' = "returned"
    /\ UNCHANGED <<error_log, outsideFont>>

-----------------------------------------------------------------------------
(* generate_artboards_png, lines 22-33. *)

\* Path(sketch_path).stem
Stem(sketch_path) == sketch_path[2]

\* Line 26: path.join(output, Path(sketch_path).stem)
ExportDirectoryOfFolder(output, sketch_path) == <<output, sketch_path[1]>>
ExportDirectory(output, sketch_path) == <<output, Stem(sketch_path)>>

\* Line 27: path.isdir(output) or makedirs(output, exist_ok=True)
MakeDirs(ds, output) == IF output \in ds THEN ds ELSE ds \cup {output}

\* Lines 28-33, sketchtool.export.artboards with overwriting=True: one file
\* for each item, named after it, replaces the file of that name if there is
\* one; a tool that fails writes nothing.
ExportArtboards(fs, sketch_path, output, items, ok) ==
    IF ok
      THEN [f \in DOMAIN fs \cup {<<output, id>> : id \in items} |->
               IF f[1] = output /\ f[2] \in items THEN <<sketch_path, f[2]>> ELSE fs[f]]
      ELSE fs

\* The output root of the batch.
Output == "output"

SketchPaths == {Document(i) : i \in 1..MaxJobs}

\* Lines 24-25: the artboards the tool lists for a document.
ArtboardLists == {{1}, {1, 2}}

NoExport == [sketch_path |-> <<0, 0>>, ok |-> FALSE]
NoFiles == [f \in {} |-> <<>>]

InitExport ==
    /\ pages \in [SketchPaths -> ArtboardLists]
    /\ dirs = {}
    /\ files = NoFiles
    /\ target = <<>>
    /\ last_export = NoExport
    /\ prev_export = NoExport
    /\ before_dirs = {}
    /\ before_files = NoFiles
    /\ nexports = 0

IdleExport ==
    /\ pages = <<>>
    /\ dirs = {}
    /\ files = NoFiles
    /\ target = <<>>
    /\ last_export = NoExport
    /\ prev_export = NoExport
    /\ before_dirs = {}
    /\ before_files = NoFiles
    /\ nexports = 0

\* One call of generate_artboards_png(sketch_path, Output).
GenerateArtboardsPng(sketch_path, ok) ==
    LET artboards_ == pages[sketch_path]
        output == ExportDirectory(Output, sketch_path)
    IN  /\ dirs' = MakeDirs(dirs, output)
        /\ files' = ExportArtboards(files, sketch_path, output, artboards_, ok)
        /\ target' = output
        /\ last_export' = [sketch_path |-> sketch_path, ok |-> ok]
        /\ prev_export' = last_export
        /\ before_dirs' = dirs
        /\ before_files' = files

Export ==
    /\ nexports < MaxExports
    /\ \E sketch_path \in SketchPaths, ok \in BOOLEAN : GenerateArtboardsPng(sketch_path, ok)
    /\ nexports' = nexports + 1
    /\ UNCHANGED <<pages, outsideExport>>

-----------------------------------------------------------------------------
(* Specifications. *)

IdlePool ==
    /\ sketch_list = <<>>
    /\ ppc = "idle"
    /\ started = 0
    /\ sketch_queue = <<>>
    /\ unfinished_tasks = 0
    /\ error_queue = <<>>
    /\ pbar_n = 0
    /\ wpc = [w \in Workers |-> "check"]
    /\ wjob = [w \in Workers |-> 0]
    /\ wres = [w \in Workers |-> <<>>]
    /\ error_message_set = {}
    /\ error_file = <<>>
    /\ takes = <<>>
    /\ exports = <<>>
    /\ results = <<>>

\* The export worker pool.
Init == InitPool /\ IdleCompare /\ IdleCache /\ IdleGroup /\ IdleFont /\ IdleExport

Next == NextPool

Spec == Init /\ [][Next]_vars

\* compare_image on its own.
InitCompareOnly == InitCompare /\ IdlePool /\ IdleCache /\ IdleGroup /\ IdleFont /\ IdleExport

NextCompare == CompareImage

SpecCompare == InitCompareOnly /\ [][NextCompare]_vars

\* The image cache on its own.
InitCacheOnly == InitCache /\ IdlePool /\ IdleCompare /\ IdleGroup /\ IdleFont /\ IdleExport

NextCache == CacheCall \/ Overwrite

SpecCache == InitCacheOnly /\ [][NextCache]_vars

\* The grouping run and its repetition.
InitGroupOnly == InitGroup /\ IdlePool /\ IdleCompare /\ IdleFont /\ IdleExport

SpecGroup == InitGroupOnly /\ [][NextGroup]_vars

\* get_missing_font on its own.
InitFontOnly ==
    InitFont /\ IdlePool /\ IdleCompare /\ IdleCache /\ IdleGroup /\ IdleExport

NextFont == GetMissingFont

SpecFont == InitFontOnly /\ [][NextFont]_vars

\* generate_artboards_png called again and again on one output root.
InitExportOnly ==
    InitExport /\ IdlePool /\ IdleCompare /\ IdleCache /\ IdleGroup /\ IdleFont

NextExport == Export

SpecExport == InitExportOnly /\ [][NextExport]_vars

-----------------------------------------------------------------------------
(* Properties of the worker pool. *)

\* Job j has been taken, exported and marked done.
Completed(j) ==
    /\ takes[j] >= 1
    /\ exports[j] >= 1
    /\ ~results[j].raised
    /\ \A w \in Workers : wjob[w] = j => wpc[w] \in {"check", "get", "exited"}

\* process is past sketch_queue.join().
Joined == ppc \in {"drain", "write", "done"}

\* Every worker thread has been started and has left run.
AllWorkersStopped ==
    /\ started = NumWorkers
    /\ \A w \in Workers : wpc[w] \in {"exited", "crashed"}

\* The diagnostics the jobs have produced: the non-empty stderr of every
\* result the exporter returned.
Diagnostics ==
    {results[j].stderr : j \in {k \in Jobs : exports[k] >= 1 /\ ~results[k].raised
                                             /\ results[k].stderr # <<>>}}

\* C4: process returns for every job list (it is never left waiting with
\* nothing able to move), and it is past the join only when every enqueued
\* job has been taken by a worker and completed.
C4_ProcessReturnsAfterAllJobs ==
    /\ ppc = "done" \/ ENABLED NextPool
    /\ Joined => \A j \in Jobs : Completed(j)

\* C5: the written error log holds exactly the lines of the non-empty
\* diagnostics of all jobs, each distinct line once, under every
\* interleaving of the workers.
C5_ErrorLogComplete ==
    ppc = "done" =>
        /\ Range(error_file) = UNION {StderrLines(d) : d \in Diagnostics}
        /\ \A i, k \in DOMAIN error_file : error_file[i] = error_file[k] => i = k

\* C5 witness: two jobs produced different diagnostics that share their
\* lines, and the log holds each line once.
C5_Witness ==
    /\ ppc = "done"
    /\ Cardinality(Diagnostics) >= 2
    /\ Len(error_file) = 2

\* C6: every job leaves the work queue once, is exported once, and none is
\* left behind when the workers have stopped.
C6_EachJobExactlyOnce ==
    /\ \A j \in Jobs : takes[j] <= 1 /\ exports[j] <= 1
    /\ AllWorkersStopped => \A j \in Jobs : takes[j] = 1 /\ exports[j] = 1

\* C7: a failing job, whether it returns diagnostics or raises, is captured:
\* no worker thread dies of it, and the batch is never left stuck after it.
C7_FailureDoesNotStopBatch ==
    /\ \A w \in Workers : wpc[w] # "crashed"
    /\ (\E j \in Jobs : exports[j] >= 1 /\ (results[j].raised \/ results[j].stderr # <<>>))
          => (ppc = "done" \/ ENABLED NextPool)

-----------------------------------------------------------------------------
(* Properties of the image cache. *)

\* Path p is still cached after the calls of history h: it was asked for,
\* and fewer than maxsize other paths have been asked for since.
StillCached(h, p) ==
    \E i \in DOMAIN h :
        /\ h[i] = p
        /\ Cardinality({h[j] : j \in (i + 1)..Len(h)} \ {p}) < 128

\* C8: a get_image call for a path that is still cached decodes nothing and
\* returns the buffer of that path's earlier decode; only a call for a path
\* that is not cached decodes.
C8_CachedPathNotDecodedAgain ==
    [][\A p \in CallPaths :
          calls' = Append(calls, p) =>
              /\ StillCached(calls, p) =>
                    /\ decodes' = decodes
                    /\ ~last_decoded'
                    /\ returned' = buffers[p]
              /\ decodes' # decodes => ~StillCached(calls, p)]_vars

\* C8 witness: after an eviction, a call hit the cache and returned the
\* buffer decoded earlier although the file has been replaced since.
C8_Witness ==
    /\ ncalls > 0
    /\ decodes > 128
    /\ ~last_decoded
    /\ returned = buffers[calls[Len(calls)]]
    /\ returned # disk[calls[Len(calls)]]

-----------------------------------------------------------------------------
(* Properties of the comparator. *)

\* The cells both arrays have: the common top-left region.
CommonRegion == DOMAIN image1.px \cap DOMAIN image2.px

\* The sum of the squared differences over the common region.
ErrorSum ==
    SumOver(CommonRegion,
            [t \in CommonRegion |-> (image1.px[t] - image2.px[t]) * (image1.px[t] - image2.px[t])])

\* C9: compare_image returns true exactly when the mean squared error over
\* the common region is strictly below 500; a mean of 10 gives true, means
\* of 900 and of exactly 500 give false.
C9_SimilarIffErrorBelow500 ==
    cpc = "returned" =>
        LET n == Cardinality(CommonRegion)
        IN  /\ similar <=> ErrorSum < 500 * n
            /\ ErrorSum = 10 * n => similar
            /\ ErrorSum = 900 * n => ~similar
            /\ ErrorSum = 500 * n => ~similar

\* C9 witness: two arrays of different shapes whose error over the common
\* region is exactly 500 were compared and found not similar.
C9_Witness ==
    /\ cpc = "returned"
    /\ image1.shape # image2.shape
    /\ ErrorSum = 500 * Cardinality(CommonRegion)
    /\ ~similar

-----------------------------------------------------------------------------
(* Properties of the grouping run. *)

\* The (group, position) slots of a list of groups.
Slots(groups) == UNION {{<<g, i>> : i \in DOMAIN groups[g]} : g \in DOMAIN groups}

\* No path stands in two slots.
NoPathTwice(groups) ==
    \A s1, s2 \in Slots(groups) :
        groups[s1[1]][s1[2]] = groups[s2[1]][s2[2]] => s1 = s2

\* The (width, height) of the file behind a path.
SizeOf(p) == <<disk[p].shape[1], disk[p].shape[2]>>

Returned == gpc \in {"dump", "done", "saved"}

\* C1: every path stands in at most one group of the groups returned by
\* merge_artboard_group and of the manifest, and in no group twice.
C1_GroupsDisjoint ==
    Returned => NoPathTwice(image_groups) /\ NoPathTwice(manifest)

\* C1 witness: the run returned several groups, one of them with several
\* members.
C1_Witness ==
    /\ gpc = "done"
    /\ Len(image_groups) >= 2
    /\ \E g \in DOMAIN image_groups : Len(image_groups[g]) >= 2

\* C2: the manifest holds the returned groups with 2 or more members, in
\* their order, and nothing else.
C2_ManifestGroupsHaveTwo ==
    gpc = "done" =>
        /\ \A g \in DOMAIN manifest : Len(manifest[g]) >= 2
        /\ manifest = SelectSeq(image_groups, LAMBDA x : Len(x) >= 2)

\* C2 witness: a manifest that kept a group and discarded another.
C2_Witness ==
    /\ gpc = "done"
    /\ manifest # <<>>
    /\ Len(manifest) < Len(image_groups)

\* C3: the paths of one bucket all have one size, and compare_image is only
\* ever called on two paths of one size.
C3_OnlySameSizeCompared ==
    /\ \A b \in DOMAIN size_groups :
          \A p, q \in Range(size_groups[b].paths) : SizeOf(p) = SizeOf(q)
    /\ \A pair \in compared : SizeOf(pair[1]) = SizeOf(pair[2])

\* C3 witness: images of two sizes were bucketed and a comparison was made.
C3_Witness ==
    /\ Len(size_groups) >= 2
    /\ compared # {}

\* C10: the repeated run returns the groups of the first run, with the
\* members in the same order, whatever the cache held when each started.
C10_SameGroupsOnRepeat ==
    (gpc = "done" /\ run = 2) =>
        /\ image_groups = first_groups
        /\ manifest = first_manifest

\* C10 witness: the first run started on a cold cache and decoded every
\* file, the repeated run decoded none, and both wrote a group.
C10_Witness ==
    /\ gpc = "done"
    /\ run = 2
    /\ Len(listing) = MaxArtboards
    /\ decodes = Len(listing)
    /\ Len(first_groups) >= 2
    /\ manifest # <<>>

-----------------------------------------------------------------------------
(* Properties of get_missing_font. *)

\* The font names F for which the line holds  Client requested name "F".
Requested(line) ==
    {SubSeq(line, i + 2, q - 1) :
        <<i, q>> \in {pr \in (DOMAIN line) \X (DOMAIN line) :
                        /\ line[pr[1]] = KW
                        /\ pr[1] + 1 <= Len(line)
                        /\ line[pr[1] + 1] = QUOTE
                        /\ pr[2] > pr[1] + 2
                        /\ line[pr[2]] = QUOTE
                        /\ \A k \in (pr[1] + 2)..(pr[2] - 1) : line[k] \notin {QUOTE, NL}}}

\* C11: get_missing_font returns the ascending, duplicate-free list of
\* exactly the font names F for which some line of the log holds
\* Client requested name "F".
C11_MissingFontsSortedDistinct ==
    fpc = "returned" =>
        /\ \A i, j \in DOMAIN missing_fonts : i < j => StrLess(missing_fonts[i], missing_fonts[j])
        /\ Range(missing_fonts) = UNION {Requested(error_log[n]) : n \in DOMAIN error_log}

-----------------------------------------------------------------------------
(* Undecodable files. *)

UnreadableListed == \E i \in DOMAIN listing : disk[listing[i]] = Unreadable

\* C12: when one of the exported images cannot be decoded, the run never
\* gets past the measuring of the images: the image is not taken into the
\* artboards, no groups are returned, no manifest is written, and the run
\* ends at the first such image.
C12_UndecodableImageAbortsRun ==
    UnreadableListed =>
        /\ gpc \in {"measure", "aborted"}
        /\ \A i \in 1..Len(artboards) : disk[listing[i]] # Unreadable
        /\ image_groups = <<>>
        /\ manifest = <<>>
        /\ gpc = "aborted" => disk[listing[Len(artboards) + 1]] = Unreadable
        /\ (gpc = "measure" /\ Len(artboards) < Len(listing)
              /\ disk[listing[Len(artboards) + 1]] = Unreadable)
             => ENABLED GroupRaise /\ ~ENABLED GroupMeasure

\* The run ended at an undecodable image after measuring a decodable one.
C12_Witness == gpc = "aborted" /\ Len(artboards) >= 1

-----------------------------------------------------------------------------
(* Export into the per-document directory. *)

\* The entries of a directory.
Entries(fs, output) == {f \in DOMAIN fs : f[1] = output}

\* C13: every export of a document goes to the directory of the output root
\* that is named after the document's stem, and an export of the document
\* that follows a successful export of the same document leaves the
\* directories and the files, names and contents, as they were: nothing is
\* added beside the files of the first export and none of them is left over.
C13_ExportIdempotent ==
    /\ last_export # NoExport =>
          /\ target = <<Output, Stem(last_export.sketch_path)>>
          /\ target \in dirs
          /\ last_export.ok =>
                {<<target, id>> : id \in pages[last_export.sketch_path]}
                    \subseteq Entries(files, target)
    /\ (prev_export # NoExport /\ prev_export.ok
          /\ last_export.sketch_path = prev_export.sketch_path) =>
          /\ dirs = before_dirs
          /\ files = before_files
          /\ Entries(files, target) = Entries(before_files, target)

\* A document was exported twice in a row, both times with success.
C13_Witness ==
    /\ prev_export # NoExport
    /\ prev_export.ok
    /\ last_export.ok
    /\ last_export.sketch_path = prev_export.sketch_path
    /\ Cardinality(Entries(files, target)) = 2
    /\ nexports >= 3

-----------------------------------------------------------------------------
(* The greedy grouping inside a bucket. *)

\* The place of an artboard in the listing.
Pos(p) == CHOOSE i \in DOMAIN listing : listing[i] = p

\* compare_image on the files of two artboards.
Similar(a, b) == compare_image(disk[a], disk[b])

\* The groups opened before group g for artboards of the same bucket.
EarlierGroups(groups, g) == {h \in 1..(g - 1) : SizeOf(groups[h][1]) = SizeOf(groups[g][1])}
LaterGroups(groups, g) ==
    {h \in (g + 1)..Len(groups) : SizeOf(groups[h][1]) = SizeOf(groups[g][1])}

\* C14: the artboards of a bucket are taken in input order; while one is
\* scanned it has been compared with the first members of the open groups
\* 1..gi-1, in that order, and was similar to none of them.  In the result a
\* member that is not the first of its group is similar to the first member
\* of its group, to no first member of an earlier group of its bucket, and
\* was never compared with the first member of a later one; a first member is
\* similar to no first member of an earlier group of its bucket.
C14_FirstMatchingGroupWins ==
    /\ \A b \in DOMAIN size_groups : \A i, j \in DOMAIN size_groups[b].paths :
          i < j => Pos(size_groups[b].paths[i]) < Pos(size_groups[b].paths[j])
    /\ gpc = "scan" =>
          \A h \in 1..(gi - 1) :
             /\ h <= Len(sub_image_groups)
             /\ <<size_groups[bi].paths[ai], sub_image_groups[h][1]>> \in compared
             /\ ~Similar(size_groups[bi].paths[ai], sub_image_groups[h][1])
    /\ Returned =>
          \A g \in DOMAIN image_groups : \A k \in DOMAIN image_groups[g] :
             LET m == image_groups[g][k]
             IN  /\ k > 1 => Similar(m, image_groups[g][1])
                 /\ \A h \in EarlierGroups(image_groups, g) :
                       ~Similar(m, image_groups[h][1])
                 /\ k > 1 => \A h \in LaterGroups(image_groups, g) :
                                <<m, image_groups[h][1]>> \notin compared

\* Of three artboards of one bucket the third is similar to the first
\* members of both open groups and has joined the first of them.
C14_Witness ==
    /\ Returned
    /\ Len(image_groups) = 2
    /\ Len(image_groups[1]) = 2
    /\ SizeOf(image_groups[1][1]) = SizeOf(image_groups[2][1])
    /\ Similar(image_groups[1][2], image_groups[2][1])
    /\ Pos(image_groups[1][2]) > Pos(image_groups[2][1])

-----------------------------------------------------------------------------
(* Only the first member of a group decides. *)

\* The first members of the groups opened so far.
FirstMembers ==
    {image_groups[g][1] : g \in DOMAIN image_groups}
        \cup {sub_image_groups[g][1] : g \in DOMAIN sub_image_groups}

\* Three artboards A, B, C of one size with A similar to B and C similar to
\* neither of them.
ThreeWithOddLast ==
    /\ Len(listing) = 3
    /\ SizeOf(listing[1]) = SizeOf(listing[2])
    /\ SizeOf(listing[2]) = SizeOf(listing[3])
    /\ Similar(listing[1], listing[2])
    /\ ~Similar(listing[1], listing[3])
    /\ ~Similar(listing[2], listing[3])

\* C15: an artboard is only ever compared with the first member of a group,
\* and an artboard that is not similar to the first member of a group is not
\* a member of it, whatever its similarity to the other members; for A, B, C
\* of one bucket with A similar to B and C similar to neither, the groups
\* are [A, B] and [C] and the manifest holds [A, B] alone.
C15_OnlyFirstMemberDecides ==
    /\ \A pair \in compared : run = 1 => pair[2] \in FirstMembers
    /\ Returned =>
          \A g \in DOMAIN image_groups : \A p \in Range(listing) :
             (p # image_groups[g][1] /\ ~Similar(p, image_groups[g][1]))
                => p \notin Range(image_groups[g])
    /\ (Returned /\ ThreeWithOddLast) =>
          image_groups = <<<<listing[1], listing[2]>>, <<listing[3]>>>>
    /\ (gpc = "done" /\ ThreeWithOddLast) => manifest = <<<<listing[1], listing[2]>>>>

\* The third of three artboards of one bucket is similar to the second and
\* not to the first, and is in a group of its own.
C15_Witness ==
    /\ gpc = "done"
    /\ Len(listing) = 3
    /\ Len(image_groups) = 2
    /\ image_groups[1] = <<listing[1], listing[2]>>
    /\ image_groups[2] = <<listing[3]>>
    /\ Similar(listing[2], listing[3])
    /\ ~Similar(listing[1], listing[3])
    /\ manifest = <<<<listing[1], listing[2]>>>>

\* The groups of A, B, C with A similar to B and C similar to neither were
\* written.
C15_ScenarioReached == gpc = "done" /\ ThreeWithOddLast

-----------------------------------------------------------------------------
(* The returned groups as a whole. *)

\* sum(len(group) for group in groups)
RECURSIVE TotalMembers(_)
TotalMembers(groups) ==
    IF groups = <<>> THEN 0 ELSE Len(Head(groups)) + TotalMembers(Tail(groups))

\* C18: when merge_artboard_group has returned, every listed artboard is in
\* exactly one bucket, the one keyed by its own width and height, and at
\* exactly one place of exactly one group, no group is empty, and the groups
\* have as many members in total as there are artboards.
C18_GroupsPartitionImages ==
    Returned =>
        /\ \A p \in Range(listing) :
              /\ Cardinality({b \in DOMAIN size_groups :
                                 p \in Range(size_groups[b].paths)}) = 1
              /\ \A b \in DOMAIN size_groups :
                    p \in Range(size_groups[b].paths)
                       => size_groups[b].key = <<disk[p].shape[1], disk[p].shape[2]>>
              /\ Cardinality({sl \in Slots(image_groups) :
                                 image_groups[sl[1]][sl[2]] = p}) = 1
        /\ \A sl \in Slots(image_groups) : image_groups[sl[1]][sl[2]] \in Range(listing)
        /\ \A g \in DOMAIN image_groups : image_groups[g] # <<>>
        /\ TotalMembers(image_groups) = Len(listing)
        /\ TotalMembers([b \in DOMAIN size_groups |-> size_groups[b].paths]) = Len(listing)

\* Three artboards of two sizes were put into two buckets and two groups.
C18_Witness ==
    /\ Returned
    /\ Len(listing) = 3
    /\ Len(size_groups) = 2
    /\ Len(image_groups) = 2

\* C19: in every returned group all members have the width and height of
\* the first, the members stand in the order of the listing with the first
\* member the earliest, and every other member is similar to the first under
\* compare_image.
C19_GroupsUniformOrderedSimilar ==
    Returned =>
        \A g \in DOMAIN image_groups :
           /\ \A k \in DOMAIN image_groups[g] :
                 /\ disk[image_groups[g][k]].shape[1] = disk[image_groups[g][1]].shape[1]
                 /\ disk[image_groups[g][k]].shape[2] = disk[image_groups[g][1]].shape[2]
                 /\ k > 1 => Pos(image_groups[g][1]) < Pos(image_groups[g][k])
                 /\ k > 1 => compare_image(disk[image_groups[g][k]], disk[image_groups[g][1]])
           /\ \A j, k \in DOMAIN image_groups[g] :
                 j < k => Pos(image_groups[g][j]) < Pos(image_groups[g][k])

\* A group of three members was returned whose second and third members are
\* similar to the first.
C19_Witness ==
    /\ Returned
    /\ Len(image_groups) = 1
    /\ Len(image_groups[1]) = 3
    /\ disk[image_groups[1][1]] # disk[image_groups[1][3]]

-----------------------------------------------------------------------------
(* The composite images. *)

\* The sum of the widths of the first n members of a group.
RECURSIVE WidthsBefore(_, _)
WidthsBefore(group, n) ==
    IF n = 0 THEN 0 ELSE WidthsBefore(group, n - 1) + disk[group[n]].shape[2]

\* C17: the composite of every group of the manifest has the height of the
\* first member and the sum of the members' widths as its width; member i is
\* pasted at the sum of the widths of the members before it, so every member
\* lies inside the composite and no two members share a column.
C17_MembersSideBySide ==
    gpc = "saved" =>
        /\ DOMAIN composites = DOMAIN manifest
        /\ \A g \in DOMAIN manifest :
              LET group == manifest[g]
                  c == composites[g]
              IN  /\ DOMAIN c.pastes = DOMAIN group
                  /\ c.size[2] = disk[group[1]].shape[1]
                  /\ c.size[1] = WidthsBefore(group, Len(group))
                  /\ \A i \in DOMAIN group :
                        /\ c.pastes[i].x = WidthsBefore(group, i - 1)
                        /\ c.pastes[i].y = 0
                        /\ c.pastes[i].width = disk[group[i]].shape[2]
                        /\ c.pastes[i].height = disk[group[i]].shape[1]
                        /\ c.pastes[i].x + c.pastes[i].width <= c.size[1]
                        /\ c.pastes[i].y + c.pastes[i].height <= c.size[2]
                  /\ \A i, j \in DOMAIN group :
                        i < j => c.pastes[i].x + c.pastes[i].width <= c.pastes[j].x

\* A group of three artboards two pixels wide was saved as a composite six
\* pixels wide.
C17_Witness ==
    /\ gpc = "saved"
    /\ Len(composites) = 1
    /\ Len(composites[1].pastes) = 3
    /\ composites[1].pastes[3].x = 4
    /\ composites[1].size = <<6, 1>>

-----------------------------------------------------------------------------
(* The end of the workers, and the directories of a batch. *)

\* C16: no worker is ever inside sketch_queue.get() with the queue empty.
\* (All jobs are put before the first worker starts, lines 61-69, so a
\* worker in that state waits for a job that never arrives.)
C16_NoWorkerBlockedInGet ==
    \A w \in Workers : ~(wpc[w] = "get" /\ sketch_queue = <<>>)

\* C20: two jobs of one batch with different document paths that were handed
\* to the exporter have different per-document output directories.
C20_DistinctDocumentsDistinctDirectories ==
    \A j, k \in Jobs :
       (sketch_list[j] # sketch_list[k] /\ exports[j] >= 1 /\ exports[k] >= 1)
          => ExportDirectory(Output, sketch_list[j]) # ExportDirectory(Output, sketch_list[k])

=============================================================================
